---------------------------- MODULE Spec2Model ----------------------------
(***************************************************************************)
(* asciinum: unsigned 128-bit integers read line by line from stdin are    *)
(* written in a positional numeral system whose digits are a configurable  *)
(* ASCII alphabet (the corpus).                                            *)
(*                                                                         *)
(* Conventions of this model                                               *)
(*  - a Rust `char` is its code point and a byte is its value, so a        *)
(*    String, a &str and a &[u8] are sequences of naturals;                *)
(*  - Option<T>: None is <<>> and Some(x) is <<x>>;                        *)
(*  - a u128 is held as its decimal digit string, most significant digit   *)
(*    first and without leading zeros (0 is <<0>>), because its range is   *)
(*    wider than the model checker's machine integers; the U128* operators *)
(*    are the u128 operations of the source on that representation;        *)
(*  - a usize (a digit, a base) is an integer.                             *)
(***************************************************************************)
EXTENDS Integers, Sequences, FiniteSets, TLC

VARIABLES
    pc,         \* main: "start", "loop", "exit" (returned after the loop) or
                \* "early_exit" (returned from the argument handling)
    argv,       \* main: the program arguments after the program name
    settings,   \* the RadixSettings the converter was built from
    converter,  \* the AsciiConverter: [corpus |-> String]
    buffer,     \* main: the Vec<u8> read_until appends to
    lines,      \* main: the chunks read_until has delivered so far, in order
    stdout,     \* main: the lines printed with println!
    stderr,     \* main: the messages printed with eprintln!
    exit_code,  \* main: the ExitCode the process ends with
    converted,  \* main: the numbers convert has been called with, in order
    decimal,    \* the u128 handed to AsciiConverter::convert
    output,     \* Option of what convert returned
    iter,       \* a BaseConvertIter: [number |-> Option<u128>, base |-> usize]
    item,       \* what the last call of next returned (Option<usize>)
    yielded,    \* the Some items next has returned so far, in order
    source,     \* the number the iterator was created with
    after,      \* calls of next made since it first returned None
    slice,      \* the &[u8] handed to trim_ascii_control
    trimmed,    \* Option of what trim_ascii_control returned
    arg,        \* the &str handed to parse_radix_arg
    parsed      \* Option of what parse_radix_arg returned

vars == <<pc, argv, settings, converter, buffer, lines, stdout, stderr,
          exit_code, converted, decimal, output, iter, item, yielded, source, after,
          slice, trimmed, arg, parsed>>

mainVars == <<pc, argv, buffer, lines, stdout, stderr, exit_code, converted>>
apiVars == <<settings, converter>>
callVars == <<decimal, output>>
iterVars == <<iter, item, yielded, source, after>>
trimVars == <<slice, trimmed>>
parseVars == <<arg, parsed>>

None == <<>>
Some(x) == <<x>>

-----------------------------------------------------------------------------
(* Bounds of the model.                                                    *)

\* convert is applied to every value 0..MaxDecimal (and to SampleDecimals)
MaxDecimal == 100
\* next is iterated from every number 0..MaxNumber (and from SampleNumbers)
MaxNumber == 70
\* ... in every base 2..MaxBase (and in SampleBases)
MaxBase == 9
\* calls of next that are made after the iterator is exhausted
MaxAfter == 2
\* trim_ascii_control is applied to every slice over TrimBytes this long
MaxSliceLen == 3
\* parse_radix_arg is applied to every string over ArgChars this long
MaxArgLen == 4
\* chunks the stdin loop reads before the stream ends or fails
MaxLines == 2

-----------------------------------------------------------------------------
(* The alphabets: asciinum.rs, lines 5-25.                                 *)

\* !"#$%&'()*+,-./:;<=>?@[\]^_`{|}~
SYMBOLS ==
    <<33, 34, 35, 36, 37, 38, 39, 40, 41, 42, 43, 44, 45, 46, 47,
      58, 59, 60, 61, 62, 63, 64, 91, 92, 93, 94, 95, 96, 123, 124, 125, 126>>

\* !"#$%&'()*+,-.:;<=>?@[\]^_`{|}~
SYMBOLS_UNIXSAFE ==
    <<33, 34, 35, 36, 37, 38, 39, 40, 41, 42, 43, 44, 45, 46,
      58, 59, 60, 61, 62, 63, 64, 91, 92, 93, 94, 95, 96, 123, 124, 125, 126>>

\* 0123456789
NUMBERS == <<48, 49, 50, 51, 52, 53, 54, 55, 56, 57>>

\* ABCDEFGHIJKLMNOPQRSTUVWXYZ
LETTERS_UPPERCASE ==
    <<65, 66, 67, 68, 69, 70, 71, 72, 73, 74, 75, 76, 77,
      78, 79, 80, 81, 82, 83, 84, 85, 86, 87, 88, 89, 90>>

\* abcdefghijklmnopqrstuvwxyz
LETTERS_LOWERCASE ==
    <<97, 98, 99, 100, 101, 102, 103, 104, 105, 106, 107, 108, 109,
      110, 111, 112, 113, 114, 115, 116, 117, 118, 119, 120, 121, 122>>

\* a plausible slip: the lowercase block concatenated with itself
LettersConcatTwiceLower == LETTERS_LOWERCASE \o LETTERS_LOWERCASE

LETTERS_CONCAT == LETTERS_UPPERCASE \o LETTERS_LOWERCASE

\* AaBbCcDdEeFfGgHhIiJjKkLlMmNnOoPpQqRrSsTtUuVvWwXxYyZz
LETTERS_ORDERED ==
    <<65, 97, 66, 98, 67, 99, 68, 100, 69, 101, 70, 102, 71, 103, 72, 104,
      73, 105, 74, 106, 75, 107, 76, 108, 77, 109, 78, 110, 79, 111, 80, 112,
      81, 113, 82, 114, 83, 115, 84, 116, 85, 117, 86, 118, 87, 119, 88, 120,
      89, 121, 90, 122>>

RadixSymbols == {"All", "UnixSafe", "Disabled"}
RadixNumbers == {"All", "Disabled"}
RadixLetters == {"Insensitive", "Sensitive", "SensitiveOrdered"}

RadixSettings == [symbols : RadixSymbols, numbers : RadixNumbers, letters : RadixLetters]

RadixSettings_new(symbols, numbers, letters) ==
    [symbols |-> symbols, numbers |-> numbers, letters |-> letters]

\* a plausible slip: the numbers block placed before the symbols block
CorpusNumbersFirst(self) ==
    (CASE self.numbers = "All" -> NUMBERS
       [] self.numbers = "Disabled" -> <<>>)
    \o (CASE self.symbols = "All" -> SYMBOLS
          [] self.symbols = "UnixSafe" -> SYMBOLS_UNIXSAFE
          [] self.symbols = "Disabled" -> <<>>)
    \o (CASE self.letters = "Insensitive" -> LETTERS_LOWERCASE
          [] self.letters = "Sensitive" -> LETTERS_CONCAT
          [] self.letters = "SensitiveOrdered" -> LETTERS_ORDERED)

\* RadixSettings::corpus
corpus(self) ==
    (CASE self.symbols = "All" -> SYMBOLS
       [] self.symbols = "UnixSafe" -> SYMBOLS_UNIXSAFE
       [] self.symbols = "Disabled" -> <<>>)
    \o (CASE self.numbers = "All" -> NUMBERS
          [] self.numbers = "Disabled" -> <<>>)
    \o (CASE self.letters = "Insensitive" -> LETTERS_LOWERCASE
          [] self.letters = "Sensitive" -> LETTERS_CONCAT
          [] self.letters = "SensitiveOrdered" -> LETTERS_ORDERED)

-----------------------------------------------------------------------------
(* u128 arithmetic on decimal digit strings.                               *)

\* the element of a one-element set. The({e(x) : x \in {v}}) is e(v), with v
\* evaluated once however often e uses it.
The(S) == CHOOSE x \in S : TRUE

\* u128::MAX = 2^128 - 1 = 340282366920938463463374607431768211455
U128_MAX ==
    <<3, 4, 0, 2, 8, 2, 3, 6, 6, 9, 2, 0, 9, 3, 8, 4, 6, 3, 4, 6,
      3, 3, 7, 4, 6, 0, 7, 4, 3, 1, 7, 6, 8, 2, 1, 1, 4, 5, 5>>

\* the digit string without its leading zeros; at least one digit is kept
StripZeros(d) ==
    The({SubSeq(x, CHOOSE k \in 1..Len(x) :
                       /\ \A h \in 1..(k - 1) : x[h] = 0
                       /\ x[k] # 0 \/ k = Len(x),
                Len(x)) : x \in {d}})

RECURSIVE U128From(_)
\* `n as u128` of a usize n
U128From(n) ==
    IF n < 10 THEN <<n>> ELSE Append(U128From(n \div 10), n % 10)

\* `a as usize` of a u128 a that is below a usize base
U128ToUsize(a) ==
    The({LET v[i \in 0..Len(x)] == IF i = 0 THEN 0 ELSE v[i - 1] * 10 + x[i]
         IN  v[Len(x)] : x \in {a}})

\* a < b
U128Lt(a, b) ==
    The({\/ Len(x) < Len(y)
         \/ /\ Len(x) = Len(y)
            /\ \E i \in 1..Len(x) :
                   x[i] < y[i] /\ \A h \in 1..(i - 1) : x[h] = y[h] :
         x \in {a}, y \in {b}})

\* long division of the digit string x by the integer m: the remainder
\* after the first i digits
Remainder(x, m) ==
    LET r[i \in 0..Len(x)] == IF i = 0 THEN 0 ELSE (r[i - 1] * 10 + x[i]) % m
    IN  r

\* a % m, m the u128 of a non-zero usize
U128Rem(a, m) == The({U128From(Remainder(x, m)[Len(x)]) : x \in {a}})

\* a / m (the quotient rounded towards zero), m the u128 of a non-zero usize
U128Div(a, m) ==
    The({StripZeros([i \in 1..Len(x) |->
                        (Remainder(x, m)[i - 1] * 10 + x[i]) \div m]) :
         x \in {a}})

\* a - b for b <= a (the only use: b is a remainder of a)
U128Sub(a, b) ==
    The({LET sub(i) == IF i > Len(x) - Len(y) THEN y[i - (Len(x) - Len(y))] ELSE 0
             \* the borrow into digit i from the digits to its right
             borrow[i \in 1..Len(x)] ==
                 IF i = Len(x) THEN 0
                 ELSE IF x[i + 1] - sub(i + 1) - borrow[i + 1] < 0 THEN 1 ELSE 0
         IN  StripZeros([i \in 1..Len(x) |->
                            (x[i] - sub(i) - borrow[i] + 10) % 10]) :
         x \in {a}, y \in {b}})

-----------------------------------------------------------------------------
(* BaseConvertIter: asciinum.rs, lines 69-107.                             *)

BaseConvertIter_new(number, base) == [number |-> Some(number), base |-> base]

\* a plausible slip: `number <= base` for `number < base`
NextFinalAtBase(self) ==
    IF self.number # None
    THEN LET number == self.number[1]
             base == self.base
         IN  IF ~U128Lt(U128From(base), number)
             THEN [self |-> [self EXCEPT !.number = None],
                   ret |-> Some(U128ToUsize(number))]
             ELSE LET left == U128Rem(number, base)
                  IN  [self |-> [self EXCEPT !.number =
                                    Some(U128Div(U128Sub(number, left), base))],
                       ret |-> Some(U128ToUsize(left))]
    ELSE [self |-> self, ret |-> None]

\* a plausible slip: the classic loop that stops at zero, so that the final
\* step is taken once more and yields a most significant digit 0
NextUntilZero(self) ==
    IF self.number # None
    THEN LET number == self.number[1]
             base == self.base
         IN  IF number = <<0>>
             THEN [self |-> [self EXCEPT !.number = None],
                   ret |-> Some(U128ToUsize(number))]
             ELSE LET left == U128Rem(number, base)
                  IN  [self |-> [self EXCEPT !.number =
                                    Some(U128Div(U128Sub(number, left), base))],
                       ret |-> Some(U128ToUsize(left))]
    ELSE [self |-> self, ret |-> None]

\* a plausible slip: the division by base forgotten in the non-final step
NextNoDivision(self) ==
    IF self.number # None
    THEN LET number == self.number[1]
             base == self.base
         IN  IF U128Lt(number, U128From(base))
             THEN [self |-> [self EXCEPT !.number = None],
                   ret |-> Some(U128ToUsize(number))]
             ELSE LET left == U128Rem(number, base)
                  IN  [self |-> [self EXCEPT !.number =
                                    Some(U128Sub(number, left))],
                       ret |-> Some(U128ToUsize(left))]
    ELSE [self |-> self, ret |-> None]

\* Iterator::next: the iterator after the call and the value returned
BaseConvertIter_next(self) ==
    IF self.number # None
    THEN LET number == self.number[1]
             base == self.base
         IN  IF U128Lt(number, U128From(base))
             THEN [self |-> [self EXCEPT !.number = None],
                   ret |-> Some(U128ToUsize(number))]
             ELSE LET left == U128Rem(number, base)
                  IN  [self |-> [self EXCEPT !.number =
                                    Some(U128Div(U128Sub(number, left), base))],
                       ret |-> Some(U128ToUsize(left))]
    ELSE [self |-> self, ret |-> None]


-----------------------------------------------------------------------------
(* AsciiConverter: asciinum.rs, lines 109-146.                             *)

AsciiConverter_new(s) == [corpus |-> corpus(s)]

\* .chars().rev().collect() of an ASCII string
Rev(s) == [i \in 1..Len(s) |-> s[Len(s) + 1 - i]]

RECURSIVE collect(_)
\* Iterator::collect on a BaseConvertIter: the items up to the first None
collect(it) ==
    The({IF r.ret = None THEN <<>> ELSE <<r.ret[1]>> \o collect(r.self) :
         r \in {BaseConvertIter_next(it)}})

\* what a call that panics in an `expect` returns in this model
Panicked == [panicked |-> TRUE, string |-> <<>>]

Returned(string) == [panicked |-> FALSE, string |-> string]

\* a plausible slip: the final `.rev()` forgotten
ConvertNoRev(self, d) ==
    IF Len(self.corpus) = 0
    THEN Panicked
    ELSE The({IF \E i \in 1..Len(digits) : digits[i] >= Len(self.corpus)
              THEN Panicked
              ELSE Returned([i \in 1..Len(digits) |-> self.corpus[digits[i] + 1]]) :
              digits \in {collect(BaseConvertIter_new(d, Len(self.corpus)))}})

\* AsciiConverter::convert. NonZeroUsize::new(0) is None and chars().nth(digit)
\* is None for a digit that is not below the corpus length: both `expect`s
\* panic.
convert(self, d) ==
    IF Len(self.corpus) = 0
    THEN Panicked
    ELSE The({IF \E i \in 1..Len(digits) : digits[i] >= Len(self.corpus)
              THEN Panicked
              ELSE Returned(Rev([i \in 1..Len(digits) |-> self.corpus[digits[i] + 1]])) :
              digits \in {collect(BaseConvertIter_new(d, Len(self.corpus)))}})

-----------------------------------------------------------------------------
(* TrimAsciiControlCharacters for [u8]: asciinum.rs, lines 148-180.        *)

\* a plausible slip: DEL (0x7F) not counted as a control byte
IsAsciiControlWithoutDel(x) == x < 32

\* u8::is_ascii_control: 0x00..=0x1F and 0x7F
is_ascii_control(x) == x < 32 \/ x = 127

\* Iterator::position / rposition of the bytes that are not control bytes,
\* as indices from 1: the least and the greatest, None when there is none
position(self) ==
    LET hits == {i \in 1..Len(self) : ~is_ascii_control(self[i])}
    IN  IF hits = {} THEN None ELSE Some(CHOOSE i \in hits : \A k \in hits : i <= k)

rposition(self) ==
    LET hits == {i \in 1..Len(self) : ~is_ascii_control(self[i])}
    IN  IF hits = {} THEN None ELSE Some(CHOOSE i \in hits : \A k \in hits : i >= k)

\* trim_ascii_control: &self[0..0] without a non-control byte, otherwise
\* &self[from..=to]
trim_ascii_control(self) ==
    IF position(self) = None
    THEN <<>>
    ELSE SubSeq(self, position(self)[1], rposition(self)[1])

-----------------------------------------------------------------------------
(* parse_radix_arg: main.rs, lines 45-74.                                  *)

Ok(value) == [ok |-> TRUE, value |-> value]
Err(error) == [ok |-> FALSE, error |-> error]

\* a plausible slip: the fourth chars.next() not required to be None, so
\* that a longer argument is accepted on its first three characters
ParseRadixArgAnyLength(a) ==
    IF Len(a) >= 3
    THEN IF a[1] \notin {97, 117, 100}
         THEN Err("first character of radix arg must be one of these: {a,u,d}")
         ELSE IF a[2] \notin {97, 100}
         THEN Err("second character of radix arg must be one of these: {a,d}")
         ELSE IF a[3] \notin {105, 115, 111}
         THEN Err("third character of radix arg must be one of these: {i,s,o}")
         ELSE Ok(RadixSettings_new(
                  CASE a[1] = 97 -> "All" [] a[1] = 117 -> "UnixSafe"
                    [] a[1] = 100 -> "Disabled",
                  CASE a[2] = 97 -> "All" [] a[2] = 100 -> "Disabled",
                  CASE a[3] = 105 -> "Insensitive" [] a[3] = 115 -> "Sensitive"
                    [] a[3] = 111 -> "SensitiveOrdered"))
    ELSE Err("must be 3 characters long")

\* parse_radix_arg. The characters matched: 'a' = 97, 'u' = 117, 'd' = 100,
\* 'i' = 105, 's' = 115, 'o' = 111. The tuple pattern (Some, Some, Some,
\* None) of four chars.next() matches exactly the 3-character strings.
parse_radix_arg(a) ==
    IF Len(a) = 3
    THEN IF a[1] \notin {97, 117, 100}
         THEN Err("first character of radix arg must be one of these: {a,u,d}")
         ELSE IF a[2] \notin {97, 100}
         THEN Err("second character of radix arg must be one of these: {a,d}")
         ELSE IF a[3] \notin {105, 115, 111}
         THEN Err("third character of radix arg must be one of these: {i,s,o}")
         ELSE Ok(RadixSettings_new(
                  CASE a[1] = 97 -> "All" [] a[1] = 117 -> "UnixSafe"
                    [] a[1] = 100 -> "Disabled",
                  CASE a[2] = 97 -> "All" [] a[2] = 100 -> "Disabled",
                  CASE a[3] = 105 -> "Insensitive" [] a[3] = 115 -> "Sensitive"
                    [] a[3] = 111 -> "SensitiveOrdered"))
    ELSE Err("must be 3 characters long")

-----------------------------------------------------------------------------
(* main: main.rs, lines 76-160.                                            *)

\* ExitCode::SUCCESS, ExitCode::FAILURE and ExitCode::from(2)
SUCCESS == 0
FAILURE == 1
EXIT_BAD_LINE == 2

\* the first line of CLI_HELP_TEXT (the lines after it are not modelled):
\* "Reads numbers from stdin & expresses them with ASCII characters."
CLI_HELP_TEXT ==
    <<
      82, 101, 97, 100, 115, 32, 110, 117, 109, 98, 101, 114, 115, 32,
      102, 114, 111, 109, 32, 115, 116, 100, 105, 110, 32, 38, 32, 101,
      120, 112, 114, 101, 115, 115, 101, 115, 32, 116, 104, 101, 109, 32,
      119, 105, 116, 104, 32, 65, 83, 67, 73, 73, 32, 99, 104, 97, 114,
      97, 99, 116, 101, 114, 115, 46
    >>

\* whether the bytes b are well-formed UTF-8: valid[i] says so of b[i..]
Utf8Valid(b) ==
    LET cont(k) == k <= Len(b) /\ b[k] \in 128..191
        valid[i \in 1..(Len(b) + 4)] ==
            IF i > Len(b) THEN i = Len(b) + 1
            ELSE IF b[i] < 128 THEN valid[i + 1]
            ELSE IF b[i] \in 194..223
            THEN cont(i + 1) /\ valid[i + 2]
            ELSE IF b[i] \in 224..239
            THEN /\ cont(i + 1) /\ cont(i + 2)
                 /\ b[i] = 224 => b[i + 1] >= 160
                 /\ b[i] = 237 => b[i + 1] <= 159
                 /\ valid[i + 3]
            ELSE IF b[i] \in 240..244
            THEN /\ cont(i + 1) /\ cont(i + 2) /\ cont(i + 3)
                 /\ b[i] = 240 => b[i + 1] >= 144
                 /\ b[i] = 244 => b[i + 1] <= 143
                 /\ valid[i + 4]
            ELSE FALSE
    IN  valid[1]

\* core::str::from_utf8: the same bytes as a &str, or a Utf8Error
from_utf8(b) == The({IF Utf8Valid(x) THEN Ok(x) ELSE Err("Utf8Error") : x \in {b}})

\* str::parse::<u128>: an optional '+' (43), then one or more decimal
\* digits (48..57) whose value is at most u128::MAX
parse_u128(line) ==
    LET digits == IF line # <<>> /\ line[1] = 43 THEN Tail(line) ELSE line
    IN  IF digits = <<>> \/ \E i \in 1..Len(digits) : digits[i] \notin 48..57
        THEN Err("ParseIntError")
        ELSE The({IF U128Lt(U128_MAX, v) THEN Err("ParseIntError") ELSE Ok(v) :
                  v \in {StripZeros([i \in 1..Len(digits) |-> digits[i] - 48])}})

\* what the body of the stdin loop does once read_until has returned Ok(n),
\* n > 0, with the buffer holding buf: the lines added to stdout and stderr,
\* the numbers handed to convert, the exit code and the buffer afterwards
Effect(out, err, nums, code, buf, panicked) ==
    [stdout |-> out, stderr |-> err, converted |-> nums, exit_code |-> code,
     buffer |-> buf, panicked |-> panicked]

\* a plausible slip: buffer.clear() at the end of the loop body forgotten
LoopBodyNoClear(conv, buf, code) ==
    The({IF btrim = <<>>
         THEN Effect(<<>>, <<>>, <<>>, code, buf, FALSE)
         ELSE The({IF ~line.ok
                   THEN Effect(<<>>, <<"couldn't parse">>, <<>>, EXIT_BAD_LINE,
                               buf, FALSE)
                   ELSE The({IF ~number.ok
                             THEN Effect(<<>>, <<"couldn't parse as integer">>, <<>>,
                                         EXIT_BAD_LINE, buf, FALSE)
                             ELSE The({IF r.panicked
                                       THEN Effect(<<>>, <<"panicked">>,
                                                   <<number.value>>, code, buf, TRUE)
                                       ELSE Effect(<<r.string>>, <<>>,
                                                   <<number.value>>, code,
                                                   buf, FALSE) :
                                       r \in {convert(conv, number.value)}}) :
                             number \in {parse_u128(line.value)}}) :
                   line \in {from_utf8(btrim)}}) :
         btrim \in {trim_ascii_control(buf)}})

\* a plausible slip: the exit code set back to SUCCESS by a line that parses
LoopBodyResetsExitCode(conv, buf, code) ==
    The({IF btrim = <<>>
         THEN Effect(<<>>, <<>>, <<>>, code, buf, FALSE)
         ELSE The({IF ~line.ok
                   THEN Effect(<<>>, <<"couldn't parse">>, <<>>, EXIT_BAD_LINE,
                               <<>>, FALSE)
                   ELSE The({IF ~number.ok
                             THEN Effect(<<>>, <<"couldn't parse as integer">>, <<>>,
                                         EXIT_BAD_LINE, <<>>, FALSE)
                             ELSE The({IF r.panicked
                                       THEN Effect(<<>>, <<"panicked">>,
                                                   <<number.value>>, code, buf, TRUE)
                                       ELSE Effect(<<r.string>>, <<>>,
                                                   <<number.value>>, SUCCESS,
                                                   <<>>, FALSE) :
                                       r \in {convert(conv, number.value)}}) :
                             number \in {parse_u128(line.value)}}) :
                   line \in {from_utf8(btrim)}}) :
         btrim \in {trim_ascii_control(buf)}})

\* main.rs, lines 126-150 and 157: btrim, then str::from_utf8(btrim) as line,
\* then line.parse::<u128>() as number, then convert. `continue` on an empty
\* btrim skips the buffer.clear() of line 157; a panic in convert ends the
\* process before it.
LoopBody(conv, buf, code) ==
    The({IF btrim = <<>>
         THEN Effect(<<>>, <<>>, <<>>, code, buf, FALSE)
         ELSE The({IF ~line.ok
                   THEN Effect(<<>>, <<"couldn't parse">>, <<>>, EXIT_BAD_LINE,
                               <<>>, FALSE)
                   ELSE The({IF ~number.ok
                             THEN Effect(<<>>, <<"couldn't parse as integer">>, <<>>,
                                         EXIT_BAD_LINE, <<>>, FALSE)
                             ELSE The({IF r.panicked
                                       THEN Effect(<<>>, <<"panicked">>,
                                                   <<number.value>>, code, buf, TRUE)
                                       ELSE Effect(<<r.string>>, <<>>,
                                                   <<number.value>>, code,
                                                   <<>>, FALSE) :
                                       r \in {convert(conv, number.value)}}) :
                             number \in {parse_u128(line.value)}}) :
                   line \in {from_utf8(btrim)}}) :
         btrim \in {trim_ascii_control(buf)}})

-----------------------------------------------------------------------------
(* Naturals of any size as decimal digit strings: used to state the        *)
(* properties (a positional value is evaluated by multiplying and adding,  *)
(* never by the divisions of the code).                                    *)

\* a * m + c
NatMulAdd(a, m, c) ==
    The({LET \* the carry into digit i from the digits to its right
             carry[i \in 0..Len(x)] ==
                 IF i = Len(x) THEN c
                 ELSE (x[i + 1] * m + carry[i + 1]) \div 10
         IN  StripZeros(U128From(carry[0]) \o
                        [i \in 1..Len(x) |-> (x[i] * m + carry[i]) % 10]) :
         x \in {a}})

RECURSIVE NatHorner(_, _, _, _)
\* acc * m^(digits left) + the value of ds[i..] read most significant first
NatHorner(acc, ds, i, m) ==
    IF i > Len(ds) THEN acc ELSE NatHorner(NatMulAdd(acc, m, ds[i]), ds, i + 1, m)

\* the value of the digits ds, least significant first, in base m,
\* plus rest * m^Len(ds)
NatValueLsf(rest, ds, m) == NatHorner(rest, Rev(ds), 1, m)

RECURSIVE NatPow(_, _)
\* m^k
NatPow(m, k) == IF k = 0 THEN <<1>> ELSE NatMulAdd(NatPow(m, k - 1), m, 0)

RECURSIVE LeastPowerAbove(_, _, _)
\* the least k' >= k with m^k' > v
LeastPowerAbove(v, m, k) ==
    IF U128Lt(v, NatPow(m, k)) THEN k ELSE LeastPowerAbove(v, m, k + 1)

-----------------------------------------------------------------------------
(* The values the unused parts of the state hold in a specification of one *)
(* part of the program.                                                    *)

MainIdle ==
    /\ pc = "idle"
    /\ argv = <<>>
    /\ buffer = <<>>
    /\ lines = <<>>
    /\ stdout = <<>>
    /\ stderr = <<>>
    /\ exit_code = 0
    /\ converted = <<>>

ApiIdle ==
    /\ settings = RadixSettings_new("Disabled", "All", "SensitiveOrdered")
    /\ converter = [corpus |-> <<>>]

CallIdle == decimal = <<0>> /\ output = None

IterIdle ==
    /\ iter = [number |-> None, base |-> 2]
    /\ item = None
    /\ yielded = <<>>
    /\ source = <<0>>
    /\ after = 0

TrimIdle == slice = <<>> /\ trimmed = None

ParseIdle == arg = <<>> /\ parsed = None

-----------------------------------------------------------------------------
(* BaseConvertIter driven by its caller: every number and base of the      *)
(* bounds, next called until it is exhausted and MaxAfter times more.      *)

\* the numbers of the unit test test_base_convert_iter
SampleNumbers == {U128From(837), U128From(123456), U128_MAX}

\* the bases of the unit test test_base_convert_iter
SampleBases == {62, 1000, 19209}

IterNumbers == {U128From(n) : n \in 0..MaxNumber} \cup SampleNumbers

IterBases == (2..MaxBase) \cup SampleBases

IterInit ==
    /\ source \in IterNumbers
    /\ \E base \in IterBases : iter = BaseConvertIter_new(source, base)
    /\ item = None
    /\ yielded = <<>>
    /\ after = 0
    /\ MainIdle /\ ApiIdle /\ CallIdle /\ TrimIdle /\ ParseIdle

\* one call of iter.next() by the consumer of the iterator
CallNext ==
    /\ iter.number = None => after < MaxAfter
    /\ LET r == BaseConvertIter_next(iter)
       IN  /\ iter' = r.self
           /\ item' = r.ret
           /\ yielded' = IF r.ret # None THEN Append(yielded, r.ret[1]) ELSE yielded
    /\ after' = IF iter.number = None THEN after + 1 ELSE after
    /\ UNCHANGED source
    /\ UNCHANGED <<mainVars, apiVars, callVars, trimVars, parseVars>>

IterNext == CallNext

SpecIter == IterInit /\ [][IterNext]_vars

\* the consumer (collect) keeps calling next
FairSpecIter == SpecIter /\ WF_vars(CallNext)

\* C9: the items yielded before the first None are the base-`base` digits of
\* the number, least significant first: every item is below base; while the
\* iterator holds a number m, m * base^k plus the value of the k items
\* yielded so far is the number it started from; once it is exhausted the
\* items alone have that value and carry no most significant 0 (so a number
\* below base yields just itself, and 123456 in base 62 yields 14, 7, 32).
C9_YieldsDigitsLeastSignificantFirst ==
    /\ \A i \in 1..Len(yielded) : yielded[i] \in 0..(iter.base - 1)
    /\ iter.number # None =>
           NatValueLsf(iter.number[1], yielded, iter.base) = source
    /\ iter.number = None =>
           /\ Len(yielded) >= 1
           /\ NatValueLsf(<<0>>, yielded, iter.base) = source
           /\ Len(yielded) > 1 => yielded[Len(yielded)] # 0
           /\ U128Lt(source, U128From(iter.base)) =>
                  yielded = <<U128ToUsize(source)>>
           /\ (source = U128From(123456) /\ iter.base = 62) =>
                  yielded = <<14, 7, 32>>

C9_Witness ==
    /\ source = U128From(123456)
    /\ iter.base = 62
    /\ iter.number = None
    /\ yielded = <<14, 7, 32>>

\* C10: repeated calls of next terminate: a call that leaves a number in the
\* iterator leaves a strictly smaller one; the iterator is eventually
\* exhausted (number = None); and a call on an exhausted iterator returns
\* None and changes neither the iterator nor what it has yielded.
C10_NextTerminates ==
    /\ [][(iter.number # None /\ iter'.number # None) =>
              U128Lt(iter'.number[1], iter.number[1])]_vars
    /\ <>(iter.number = None)
    /\ [][iter.number = None =>
              (iter' = iter /\ item' = None /\ yielded' = yielded)]_vars

C10_Witness ==
    /\ iter.number = None
    /\ item = None
    /\ after >= 2
    /\ Len(yielded) >= 3

-----------------------------------------------------------------------------
(* The library interface: a converter built from each of the 18 option     *)
(* sets, and convert applied to a value.                                   *)

Radices == {Len(corpus(s)) : s \in RadixSettings}

\* around the values where the output of some radix gets a digit longer
PowerEdges ==
    UNION {{r * r - 1, r * r, r * r * r - 1, r * r * r} : r \in Radices}

\* the doc example of convert (123), and the largest u128
SampleDecimals ==
    {U128From(n) : n \in PowerEdges \cup {123}} \cup {U128_MAX}

Decimals == {U128From(n) : n \in 0..MaxDecimal} \cup SampleDecimals

ConvertInit ==
    /\ settings \in RadixSettings
    /\ converter = AsciiConverter_new(settings)
    /\ decimal \in Decimals
    /\ output = None
    /\ MainIdle /\ IterIdle /\ TrimIdle /\ ParseIdle

\* converter.convert(decimal)
Convert ==
    /\ output = None
    /\ output' = Some(convert(converter, decimal))
    /\ UNCHANGED <<decimal, apiVars, mainVars, iterVars, trimVars, parseVars>>

ConvertNext == Convert

SpecConvert == ConvertInit /\ [][ConvertNext]_vars

\* the position of character ch in string c, counted from 0
IndexOf(c, ch) == (CHOOSE i \in 1..Len(c) : c[i] = ch) - 1

\* C1: convert(v) is the positional representation of v in radix = corpus
\* length, most significant digit first: it does not panic, every character
\* of the output is a character of the corpus, and the corpus indices
\* d_k..d_0 of the characters read left to right give sum(d_i * radix^i) = v;
\* with the a-z corpus convert(123) = "et" and convert(0) = "a".
C1_ConvertIsPositional ==
    output # None =>
        LET out == output[1].string
            c == converter.corpus
        IN  /\ ~output[1].panicked
            /\ Len(out) >= 1
            /\ \A i \in 1..Len(out) : \E j \in 1..Len(c) : c[j] = out[i]
            /\ NatHorner(<<0>>, [i \in 1..Len(out) |-> IndexOf(c, out[i])],
                         1, Len(c)) = decimal
            /\ (c = LETTERS_LOWERCASE /\ decimal = U128From(123)) =>
                   out = <<101, 116>>
            /\ (c = LETTERS_LOWERCASE /\ decimal = <<0>>) => out = <<97>>

C1_Witness ==
    /\ output # None
    /\ decimal = U128_MAX
    /\ settings = RadixSettings_new("Disabled", "All", "SensitiveOrdered")
    /\ Len(output[1].string) = 22

\* the elements of a finite set of integers in ascending order
Ascending(S) ==
    [i \in 1..Cardinality(S) |->
        CHOOSE x \in S : Cardinality({y \in S : y < x}) = i - 1]

\* the printable ASCII characters that are neither a digit nor a letter
Punctuation == (33..126) \ ((48..57) \cup (65..90) \cup (97..122))

\* C2: the corpus is symbols block + digits block + letters block in that
\* order, each block decided by its own mode alone: the 32 punctuation
\* characters, those without '/' (31), or nothing; "0123456789" or nothing;
\* a-z (26), A-Z then a-z (52), or AaBb...Zz interleaved (52).
C2_CorpusIsThreeBlocks ==
    LET symbols == CASE settings.symbols = "All" -> Ascending(Punctuation)
                     [] settings.symbols = "UnixSafe" -> Ascending(Punctuation \ {47})
                     [] settings.symbols = "Disabled" -> <<>>
        digits == CASE settings.numbers = "All" -> [i \in 1..10 |-> 47 + i]
                    [] settings.numbers = "Disabled" -> <<>>
        letters == CASE settings.letters = "Insensitive" -> [i \in 1..26 |-> 96 + i]
                     [] settings.letters = "Sensitive" ->
                            [i \in 1..52 |-> IF i <= 26 THEN 64 + i ELSE 70 + i]
                     [] settings.letters = "SensitiveOrdered" ->
                            [i \in 1..52 |-> IF i % 2 = 1 THEN 64 + (i + 1) \div 2
                                             ELSE 96 + i \div 2]
    IN  /\ converter.corpus = symbols \o digits \o letters
        /\ Len(symbols) = (CASE settings.symbols = "All" -> 32
                             [] settings.symbols = "UnixSafe" -> 31
                             [] settings.symbols = "Disabled" -> 0)

C2_Witness ==
    /\ settings = RadixSettings_new("UnixSafe", "All", "SensitiveOrdered")
    /\ Len(converter.corpus) = 93
    /\ converter.corpus[31] = 126
    /\ converter.corpus[32] = 48
    /\ converter.corpus[42] = 65

\* C3: for each of the 3 x 2 x 3 option sets the corpus has at least two
\* characters and no character twice.
C3_CorpusDistinct ==
    /\ Len(converter.corpus) >= 2
    /\ \A i, j \in 1..Len(converter.corpus) :
           converter.corpus[i] = converter.corpus[j] => i = j

C3_Witness ==
    /\ settings = RadixSettings_new("All", "All", "Sensitive")
    /\ Len(converter.corpus) = 94

\* C4: the output of convert(v) has ceil(log_r(v + 1)) characters, that is
\* the least k >= 1 with r^k > v (one character for v = 0); it does not begin
\* with corpus[0] when v >= r; and it is no shorter than the output for v - 1.
C4_OutputLength ==
    output # None =>
        LET out == output[1].string
            r == Len(converter.corpus)
        IN  /\ Len(out) = LeastPowerAbove(decimal, r, 1)
            /\ ~U128Lt(decimal, U128From(r)) => out[1] # converter.corpus[1]
            /\ decimal = <<0>> => Len(out) = 1
            /\ decimal # <<0>> =>
                   Len(convert(converter, U128Sub(decimal, <<1>>)).string) <= Len(out)

C4_Witness ==
    /\ output # None
    /\ Len(converter.corpus) = 26
    /\ decimal = U128From(17576)
    /\ Len(output[1].string) = 4

\* C11: in every conversion through AsciiConverter::new and convert, for any
\* of the 18 option sets and any u128, the corpus length handed to
\* NonZeroUsize::new is not zero and every digit the iterator produces is
\* below it, so both `expect`s of convert find a value: convert does not
\* panic, and it returns one corpus character per digit.
C11_ConvertNeverPanics ==
    output # None =>
        LET radix == Len(converter.corpus)
            digits == collect(BaseConvertIter_new(decimal, radix))
        IN  /\ radix > 0
            /\ \A i \in 1..Len(digits) : digits[i] < radix
            /\ ~output[1].panicked
            /\ Len(output[1].string) = Len(digits)

C11_Witness ==
    /\ output # None
    /\ settings = RadixSettings_new("All", "All", "Sensitive")
    /\ decimal = U128_MAX
    /\ ~output[1].panicked
    /\ Len(output[1].string) = 20

-----------------------------------------------------------------------------
(* trim_ascii_control applied to a byte slice.                             *)

\* NUL, LF, US (the last control byte below the space), the space, 'X',
\* DEL, and two bytes that are not ASCII
TrimBytes == {0, 10, 31, 32, 88, 127, 128, 159}

\* the sequences over S of length at most n
SeqsUpTo(S, n) == UNION {[1..k -> S] : k \in 0..n}

\* inputs of the unit test test_trim_ascii_control and of the doc example
\* (its "hello world" shortened to "X")
SampleSlices ==
    {<<9, 10, 13, 88, 0, 31, 127>>, <<9, 32, 13, 88, 10, 32, 0>>,
     <<13, 32, 88, 10, 32>>}

TrimInit ==
    /\ slice \in SeqsUpTo(TrimBytes, MaxSliceLen) \cup SampleSlices
    /\ trimmed = None
    /\ MainIdle /\ ApiIdle /\ CallIdle /\ IterIdle /\ ParseIdle

\* slice.trim_ascii_control()
Trim ==
    /\ trimmed = None
    /\ trimmed' = Some(trim_ascii_control(slice))
    /\ UNCHANGED <<slice, mainVars, apiVars, callVars, iterVars, parseVars>>

TrimNext == Trim

SpecTrim == TrimInit /\ [][TrimNext]_vars

\* control bytes as the claim defines them: below 0x20, or 0x7F
Control(x) == x \in (0..31) \cup {127}

\* C8: trim_ascii_control(s) is the part of s from its first to its last
\* non-control byte: s is control bytes, then the result, then control
\* bytes; a non-empty result begins and ends with a non-control byte; the
\* result is empty only if s has nothing but control bytes; trimming the
\* result again changes nothing.
C8_TrimIsInnerSlice ==
    trimmed # None =>
        LET t == trimmed[1]
        IN  /\ \E i \in 0..Len(slice) :
                   /\ i + Len(t) <= Len(slice)
                   /\ SubSeq(slice, i + 1, i + Len(t)) = t
                   /\ \A k \in 1..i : Control(slice[k])
                   /\ \A k \in (i + Len(t) + 1)..Len(slice) : Control(slice[k])
            /\ t # <<>> => ~Control(t[1]) /\ ~Control(t[Len(t)])
            /\ t = <<>> => \A k \in 1..Len(slice) : Control(slice[k])
            /\ trim_ascii_control(t) = t
            /\ slice = <<9, 10, 13, 88, 0, 31, 127>> => t = <<88>>
            /\ slice = <<13, 32, 88, 10, 32>> => t = <<32, 88, 10, 32>>

C8_Witness ==
    /\ slice = <<10, 88, 0>>
    /\ trimmed = Some(<<88>>)

-----------------------------------------------------------------------------
(* parse_radix_arg applied to an argument.                                 *)

\* a u d i s o, and two characters that select nothing: x and e-acute
ArgChars == {97, 117, 100, 105, 115, 111, 120, 233}

\* an argument of the unit test test_parse_radix_arg: "haha\r\nhehe"
SampleArgs == {<<104, 97, 104, 97, 13, 10, 104, 101, 104, 101>>}

ParseInit ==
    /\ arg \in SeqsUpTo(ArgChars, MaxArgLen) \cup SampleArgs
    /\ parsed = None
    /\ MainIdle /\ ApiIdle /\ CallIdle /\ IterIdle /\ TrimIdle

\* parse_radix_arg(arg)
Parse ==
    /\ parsed = None
    /\ parsed' = Some(parse_radix_arg(arg))
    /\ UNCHANGED <<arg, mainVars, apiVars, callVars, iterVars, trimVars>>

ParseNext == Parse

SpecParse == ParseInit /\ [][ParseNext]_vars

\* the modes the configuration characters stand for
SymbolsOf == (97 :> "All") @@ (117 :> "UnixSafe") @@ (100 :> "Disabled")
NumbersOf == (97 :> "All") @@ (100 :> "Disabled")
LettersOf == (105 :> "Insensitive") @@ (115 :> "Sensitive") @@ (111 :> "SensitiveOrdered")

\* C5: parse_radix_arg returns Ok exactly for the 3-character arguments
\* whose characters are one of a/u/d, one of a/d and one of i/s/o, in that
\* order, and then the settings are the modes those characters stand for;
\* for every other argument it returns an Err with a message.
C5_ParseRadixArg ==
    parsed # None =>
        LET r == parsed[1]
            wellFormed == /\ Len(arg) = 3
                          /\ arg[1] \in DOMAIN SymbolsOf
                          /\ arg[2] \in DOMAIN NumbersOf
                          /\ arg[3] \in DOMAIN LettersOf
        IN  /\ r.ok <=> wellFormed
            /\ r.ok => r.value = [symbols |-> SymbolsOf[arg[1]],
                                  numbers |-> NumbersOf[arg[2]],
                                  letters |-> LettersOf[arg[3]]]
            /\ ~r.ok => r.error # ""

C5_Witness ==
    /\ arg = <<117, 100, 111>>
    /\ parsed = Some(Ok(RadixSettings_new("UnixSafe", "Disabled", "SensitiveOrdered")))

-----------------------------------------------------------------------------
(* The program: main run on an argument list and a stream of chunks.       *)

\* a program argument: the characters of the OsString, and whether
\* into_string() succeeds on it (whether it is valid Unicode)
OsArg(chars) == [utf8 |-> TRUE, chars |-> chars]
OsArgNotUtf8 == [utf8 |-> FALSE, chars |-> <<>>]

\* no argument; "dai", "aas", "udo"; "-h"; "dai" "--help"; "dai" "aas";
\* "xyz"; "dai" and an argument that is not valid Unicode
ArgvChoices ==
    {<<>>,
     <<OsArg(<<100, 97, 105>>)>>,
     <<OsArg(<<97, 97, 115>>)>>,
     <<OsArg(<<117, 100, 111>>)>>,
     <<OsArg(<<45, 104>>)>>,
     <<OsArg(<<100, 97, 105>>), OsArg(<<45, 45, 104, 101, 108, 112>>)>>,
     <<OsArg(<<100, 97, 105>>), OsArg(<<97, 97, 115>>)>>,
     <<OsArg(<<120, 121, 122>>)>>,
     <<OsArg(<<100, 97, 105>>), OsArgNotUtf8>>}

\* the decimal text of a number
DecimalText(v) == [i \in 1..Len(v) |-> 48 + v[i]]

\* what one read_until(b'\n') can deliver: bytes up to and including a line
\* feed, or the bytes left before the end of the stream.
\*   "\n"   "\r\n"   "0\n"   "12\r\n"   DEL "+07" NUL (no line feed)
\*   "1 2\n"   0x80 "\n" (not UTF-8)   "e-acute\n" (UTF-8, not a number)
\*   u128::MAX "\n"   u128::MAX + 1 "\n"
Chunks ==
    {<<10>>,
     <<13, 10>>,
     <<48, 10>>,
     <<49, 50, 13, 10>>,
     <<127, 43, 48, 55, 0>>,
     <<49, 32, 50, 10>>,
     <<128, 10>>,
     <<195, 169, 10>>,
     Append(DecimalText(U128_MAX), 10),
     Append(DecimalText(NatMulAdd(U128_MAX, 1, 1)), 10)}

Init ==
    /\ pc = "start"
    /\ argv \in ArgvChoices
    /\ buffer = <<>>
    /\ lines = <<>>
    /\ stdout = <<>>
    /\ stderr = <<>>
    /\ exit_code = SUCCESS
    /\ converted = <<>>
    /\ ApiIdle /\ CallIdle /\ IterIdle /\ TrimIdle /\ ParseIdle

\* main.rs, lines 77-119: the arguments are collected (the first that is
\* not valid Unicode ends the program), a help flag prints the help, more
\* than one argument is refused, the argument (or the default "dao") gives
\* the settings, and the converter is built
Startup ==
    /\ pc = "start"
    /\ UNCHANGED <<argv, buffer, lines, converted>>
    /\ IF \E i \in 1..Len(argv) : ~argv[i].utf8
       THEN /\ stderr' = Append(stderr, "couldn't parse program arg: not a valid utf-8 string")
            /\ exit_code' = FAILURE
            /\ pc' = "early_exit"
            /\ UNCHANGED <<stdout, apiVars>>
       ELSE IF \E i \in 1..Len(argv) :
                  argv[i].chars \in {<<45, 104>>, <<45, 45, 104, 101, 108, 112>>}
       THEN /\ stdout' = Append(stdout, CLI_HELP_TEXT)
            /\ exit_code' = SUCCESS
            /\ pc' = "early_exit"
            /\ UNCHANGED <<stderr, apiVars>>
       ELSE IF Len(argv) > 1
       THEN /\ stderr' = Append(stderr, "too many arguments")
            /\ exit_code' = FAILURE
            /\ pc' = "early_exit"
            /\ UNCHANGED <<stdout, apiVars>>
       ELSE IF Len(argv) = 1 /\ ~parse_radix_arg(argv[1].chars).ok
       THEN /\ stderr' = Append(stderr, "couldn't parse program arg")
            /\ exit_code' = FAILURE
            /\ pc' = "early_exit"
            /\ UNCHANGED <<stdout, apiVars>>
       ELSE /\ settings' = IF Len(argv) = 1
                           THEN parse_radix_arg(argv[1].chars).value
                           ELSE RadixSettings_new("Disabled", "All", "SensitiveOrdered")
            /\ converter' = AsciiConverter_new(settings')
            /\ exit_code' = SUCCESS
            /\ pc' = "loop"
            /\ UNCHANGED <<stdout, stderr>>
    /\ UNCHANGED <<callVars, iterVars, trimVars, parseVars>>

\* one pass of the loop in which read_until returns Ok(n), n > 0: the chunk
\* is appended to the buffer and the body runs
ReadChunk ==
    /\ pc = "loop"
    /\ Len(lines) < MaxLines
    /\ \E chunk \in Chunks :
           /\ lines' = Append(lines, chunk)
           /\ \E r \in {LoopBody(converter, buffer \o chunk, exit_code)} :
                  /\ stdout' = stdout \o r.stdout
                  /\ stderr' = stderr \o r.stderr
                  /\ converted' = converted \o r.converted
                  /\ buffer' = r.buffer
                  /\ exit_code' = IF r.panicked THEN 101 ELSE r.exit_code
                  /\ pc' = IF r.panicked THEN "exit" ELSE "loop"
    /\ UNCHANGED <<argv, apiVars, callVars, iterVars, trimVars, parseVars>>

\* read_until returns Ok(0): the end of the stream ends the loop
ReadEof ==
    /\ pc = "loop"
    /\ pc' = "exit"
    /\ UNCHANGED <<argv, buffer, lines, stdout, stderr, exit_code, converted>>
    /\ UNCHANGED <<apiVars, callVars, iterVars, trimVars, parseVars>>

\* read_until returns Err: the loop ends with ExitCode::FAILURE
ReadError ==
    /\ pc = "loop"
    /\ stderr' = Append(stderr, "couldn't read stream")
    /\ exit_code' = FAILURE
    /\ pc' = "exit"
    /\ UNCHANGED <<argv, buffer, lines, stdout, converted>>
    /\ UNCHANGED <<apiVars, callVars, iterVars, trimVars, parseVars>>

Next == Startup \/ ReadChunk \/ ReadEof \/ ReadError

Spec == Init /\ [][Next]_vars

\* what a chunk, taken by itself, asks of the loop: "blank" when nothing is
\* left of it after the control bytes at its ends are stripped, the number
\* it parses to, or "bad" (not UTF-8, or not a u128)
OwnLine(chunk) ==
    LET t == trim_ascii_control(chunk)
    IN  IF t = <<>> THEN [kind |-> "blank", number |-> <<>>]
        ELSE IF from_utf8(t).ok /\ parse_u128(t).ok
        THEN [kind |-> "number", number |-> parse_u128(t).value]
        ELSE [kind |-> "bad", number |-> <<>>]

RECURSIVE OwnNumbers(_, _)
\* the numbers of the chunks ls[i..] that parse, in order
OwnNumbers(ls, i) ==
    IF i > Len(ls) THEN <<>>
    ELSE (IF OwnLine(ls[i]).kind = "number" THEN <<OwnLine(ls[i]).number>> ELSE <<>>)
         \o OwnNumbers(ls, i + 1)

InOrAfterLoop == pc \in {"loop", "exit"}

\* C6: in the stdin loop exactly one string is written per line that, with
\* the control bytes at its ends stripped, parses as a u128, in input order,
\* and it is convert of that line's own number; the converter is called for
\* those lines only (not for a blank line), and neither a blank line nor a
\* malformed one changes what is written for a later line.
C6_OneOutputPerParsedLine ==
    InOrAfterLoop =>
        /\ converted = OwnNumbers(lines, 1)
        /\ Len(stdout) = Len(converted)
        /\ \A i \in 1..Len(stdout) :
               stdout[i] = convert(converter, converted[i]).string

C6_Witness ==
    /\ pc = "exit"
    /\ lines = <<<<13, 10>>, <<49, 50, 13, 10>>>>
    /\ converted = <<<<1, 2>>>>
    /\ Len(stdout) = 1
    /\ exit_code = SUCCESS

ReadFailed == \E i \in 1..Len(stderr) : stderr[i] = "couldn't read stream"

SomeLineBad == \E i \in 1..Len(lines) : OwnLine(lines[i]).kind = "bad"

\* C7: a line that is not UTF-8 or not a u128 does not end the loop (only
\* the end of the stream or a read error does, and a read error does at
\* once), and from that line on the exit status is non-zero whatever
\* follows; a read error makes the exit status FAILURE; the exit status is
\* SUCCESS only if no line was bad and no read failed.
C7_ExitStatus ==
    /\ [](InOrAfterLoop =>
            /\ ReadFailed => (pc = "exit" /\ exit_code = FAILURE)
            /\ ~ReadFailed => exit_code = IF SomeLineBad THEN 2 ELSE SUCCESS
            /\ exit_code = SUCCESS <=> (~SomeLineBad /\ ~ReadFailed))
    /\ [][(pc = "loop" /\ lines' # lines) => pc' = "loop"]_vars

C7_Witness ==
    /\ pc = "exit"
    /\ lines = <<<<128, 10>>, <<48, 10>>>>
    /\ Len(stdout) = 1
    /\ exit_code = 2
    /\ ~ReadFailed

=============================================================================
